---- MODULE Spec2Model ----
(***************************************************************************)
(* netaccess: the session client (account_manager.rs) as pure operators    *)
(* over one portal "world", and the monitor task (monitor.rs) as a state   *)
(* machine running against a consumer of its two channels and a controller *)
(* calling start() and stop().                                             *)
(***************************************************************************)
EXTENDS Integers, Sequences, FiniteSets, TLC

(* ------------------------------ bounds -------------------------------- *)
\* data rows of the status table
MaxRows == 2
\* iterations of the monitor loop one execution may open
MaxIter == 2
\* the capacity of the lifecycle channel start() is given (main() makes it
\* with MSG_CHANNEL_BUF_SIZE, 20; the monitor is the same for any capacity)
ChanCap == 2
\* calls of start() the controller makes
MaxStarts == 2
\* the latest instant of the portal's clock
MaxTime == 2

(* ------------------------ account_manager.rs -------------------------- *)
LOGIN_PATH == "/account/login"
INDEX_PATH == "/account/index"
APPROVE_PATH == "/account/approve"
REVOKE_PATH == "/account/revoke"
OTHER_PATH == "/account/other"

IPs == {"10.0.0.1", "10.0.0.2"}
NoIp == "0.0.0.0"

\* one HTTP exchange: the send fails (no response), or a response arrives
\* with its status and the path of its final URL
NoResponse == [sent |-> FALSE, success |-> FALSE, path |-> "none"]
Response(success, path) == [sent |-> TRUE, success |-> success, path |-> path]
Exchanges ==
    {NoResponse}
        \cup {Response(s, p) : s \in BOOLEAN, p \in {INDEX_PATH, LOGIN_PATH, OTHER_PATH}}

\* the requests the client issues; revoke's path ends with the target IP
Get(path) == [method |-> "GET", path |-> path, ip |-> NoIp]
Post(path) == [method |-> "POST", path |-> path, ip |-> NoIp]
PostIp(path, ip) == [method |-> "POST", path |-> path, ip |-> ip]

\* impl Default for Connection
DefaultConnection == [time_left |-> 0, is_active |-> FALSE]

\* Connection::is_active
\* mutant: the portal's label alone decides
is_active_FlagOnly(c) == c.is_active
is_active(c) == c.time_left # 0 /\ c.is_active

EmptyMap == [i \in {} |-> DefaultConnection]

\* a Result: the value or the Error variant with its message, and the
\* requests issued on the way
Ok(v, reqs) == [ok |-> TRUE, err |-> "none", msg |-> <<>>, val |-> v, reqs |-> reqs]
ErrMsg(e, m, v, reqs) == [ok |-> FALSE, err |-> e, msg |-> m, val |-> v, reqs |-> reqs]
Err(e, v, reqs) == ErrMsg(e, <<e>>, v, reqs)

\* mutant: the difference is returned as it is
Max_Unclamped(a, b) == b
Max(a, b) == IF a >= b THEN a ELSE b

\* AccountManager::parse_tr_element: a row is its second td (the IP), its
\* third td (the expiry) and its first span (the label); a cell is "missing"
\* (no element), "notext" (no leading text node), "bad" (unparsable) or "ok"
parse_tr_element(tr, now) ==
    LET fail(msg) == [ok |-> FALSE, err |-> msg, ip |-> NoIp, conn |-> DefaultConnection]
    IN  IF tr.ip_cell = "missing" THEN fail("Missing IP address element")
        ELSE IF tr.ip_cell = "notext" THEN fail("Extracting IP address failed")
        ELSE IF tr.vt_cell = "missing" THEN fail("Missing remaining duration element")
        ELSE IF tr.vt_cell = "notext" THEN fail("Extracting remaining duration failed")
        ELSE IF tr.vt_cell = "bad" THEN fail("ParseError")
        ELSE IF tr.span = "missing" THEN fail("Missing status element")
        ELSE IF tr.span = "notext" THEN fail("Extracting status failed")
        ELSE IF tr.ip_cell = "bad" THEN fail("AddrParseError")
        ELSE [ok |-> TRUE, err |-> "none", ip |-> tr.ip,
              conn |-> [time_left |-> Max(0, tr.valid_till - now),
                        is_active |-> tr.span = "Active"]]

\* mutant: a row that fails is left out and the rest is returned
RECURSIVE collect_rows_SkipBad(_, _, _, _)
collect_rows_SkipBad(rows, i, now, map) ==
    IF i > Len(rows) THEN [ok |-> TRUE, err |-> "none", map |-> map]
    ELSE LET r == parse_tr_element(rows[i], now)
         IN  IF ~r.ok THEN collect_rows_SkipBad(rows, i + 1, now, map)
             ELSE collect_rows_SkipBad(rows, i + 1, now,
                    [p \in (DOMAIN map) \cup {r.ip} |->
                        IF p = r.ip THEN r.conn ELSE map[p]])

\* the collect() of parse_connections: rows i..Len(rows) folded into the map,
\* stopping at the first row that fails; a later row of the same IP replaces
\* the earlier one
RECURSIVE collect_rows(_, _, _, _)
collect_rows(rows, i, now, map) ==
    IF i > Len(rows) THEN [ok |-> TRUE, err |-> "none", map |-> map]
    ELSE LET r == parse_tr_element(rows[i], now)
         IN  IF ~r.ok THEN [ok |-> FALSE, err |-> r.err, map |-> EmptyMap]
             ELSE collect_rows(rows, i + 1, now,
                    [p \in (DOMAIN map) \cup {r.ip} |->
                        IF p = r.ip THEN r.conn ELSE map[p]])

\* AccountManager::parse_connections: html is [tbody, rows]; rows[1] is the
\* header row the code skips
parse_connections(html, now) ==
    IF ~html.tbody
    THEN [ok |-> FALSE, err |-> "Html does not have a tbody element", map |-> EmptyMap]
    ELSE collect_rows(html.rows, 2, now, EmptyMap)

\* mutant: a probe that fails is made once more
is_logged_in_Retry(probe) ==
    IF ~probe.sent THEN Err("Other", FALSE, <<Get(INDEX_PATH), Get(INDEX_PATH)>>)
    ELSE IF ~probe.success THEN Err("Other", FALSE, <<Get(INDEX_PATH)>>)
    ELSE Ok(probe.path = INDEX_PATH, <<Get(INDEX_PATH)>>)

\* AccountManager::is_logged_in over the index probe
is_logged_in(probe) ==
    IF ~probe.sent THEN Err("Other", FALSE, <<Get(INDEX_PATH)>>)
    ELSE IF ~probe.success THEN Err("Other", FALSE, <<Get(INDEX_PATH)>>)
    ELSE Ok(probe.path = INDEX_PATH, <<Get(INDEX_PATH)>>)

\* mutant: the probe is made, and trusted, even when force is set
login_ProbeAlways(w, force) ==
    LET probe == is_logged_in(w.probe)
        reqs == probe.reqs \o <<Post(LOGIN_PATH)>>
    IN  IF ~probe.ok THEN probe
        ELSE IF probe.val THEN Ok(TRUE, probe.reqs)
        ELSE IF ~w.login_post.sent THEN Err("Reqwest", FALSE, reqs)
        ELSE IF ~w.login_post.success
             THEN ErrMsg("Other", <<"Login response failed with status">>, FALSE, reqs)
        ELSE IF w.login_post.path = INDEX_PATH THEN Ok(TRUE, reqs)
        ELSE IF w.login_post.path = LOGIN_PATH THEN Err("InvalidCredentials", FALSE, reqs)
        ELSE ErrMsg("Other", <<"Unexpected URL path in login response", w.login_post.path>>,
                    FALSE, reqs)

\* mutant: every path but the index path is taken for rejected credentials
login_AnyPathInvalid(w, force) ==
    LET probe == IF force THEN Ok(FALSE, <<>>) ELSE is_logged_in(w.probe)
        reqs == probe.reqs \o <<Post(LOGIN_PATH)>>
    IN  IF ~probe.ok THEN probe
        ELSE IF probe.val THEN Ok(TRUE, probe.reqs)
        ELSE IF ~w.login_post.sent THEN Err("Reqwest", FALSE, reqs)
        ELSE IF ~w.login_post.success
             THEN ErrMsg("Other", <<"Login response failed with status">>, FALSE, reqs)
        ELSE IF w.login_post.path = INDEX_PATH THEN Ok(TRUE, reqs)
        ELSE Err("InvalidCredentials", FALSE, reqs)

\* AccountManager::login
login(w, force) ==
    LET probe == IF force THEN Ok(FALSE, <<>>) ELSE is_logged_in(w.probe)
        reqs == probe.reqs \o <<Post(LOGIN_PATH)>>
    IN  IF ~probe.ok THEN probe
        ELSE IF probe.val THEN Ok(TRUE, probe.reqs)
        ELSE IF ~w.login_post.sent THEN Err("Reqwest", FALSE, reqs)
        ELSE IF ~w.login_post.success
             THEN ErrMsg("Other", <<"Login response failed with status">>, FALSE, reqs)
        ELSE IF w.login_post.path = INDEX_PATH THEN Ok(TRUE, reqs)
        ELSE IF w.login_post.path = LOGIN_PATH THEN Err("InvalidCredentials", FALSE, reqs)
        ELSE ErrMsg("Other", <<"Unexpected URL path in login response", w.login_post.path>>,
                    FALSE, reqs)

\* AccountManager::check_user_passowrd
check_user_passowrd(w) == login(w, TRUE)

NoStatus ==
    [system_status |-> [ip |-> NoIp, connection |-> DefaultConnection],
     connections |-> EmptyMap]

\* mutant: status() leaves the own IP's entry in the mapping
status_KeepOwn(w) ==
    LET l == login(w, FALSE)
        reqs == l.reqs \o <<Get(INDEX_PATH)>>
        parsed == parse_connections(w.html, w.now)
        ip == w.local_ip
    IN  IF ~l.ok THEN ErrMsg(l.err, l.msg, NoStatus, l.reqs)
        ELSE IF w.index_fetch = "transport_err" THEN Err("Reqwest", NoStatus, reqs)
        ELSE IF w.index_fetch = "body_err" THEN Err("Reqwest", NoStatus, reqs)
        ELSE IF ~parsed.ok THEN ErrMsg("Other", <<parsed.err>>, NoStatus, reqs)
        ELSE IF ip = NoIp THEN Err("Other", NoStatus, reqs)
        ELSE Ok([system_status |->
                    [ip |-> ip,
                     connection |-> IF ip \in DOMAIN parsed.map
                                    THEN parsed.map[ip] ELSE DefaultConnection],
                 connections |-> parsed.map],
                reqs)

\* AccountManager::status
status(w) ==
    LET l == login(w, FALSE)
        reqs == l.reqs \o <<Get(INDEX_PATH)>>
        parsed == parse_connections(w.html, w.now)
        ip == w.local_ip
    IN  IF ~l.ok THEN ErrMsg(l.err, l.msg, NoStatus, l.reqs)
        ELSE IF w.index_fetch = "transport_err" THEN Err("Reqwest", NoStatus, reqs)
        ELSE IF w.index_fetch = "body_err" THEN Err("Reqwest", NoStatus, reqs)
        ELSE IF ~parsed.ok THEN ErrMsg("Other", <<parsed.err>>, NoStatus, reqs)
        ELSE IF ip = NoIp THEN Err("Other", NoStatus, reqs)
        ELSE Ok([system_status |->
                    [ip |-> ip,
                     connection |-> IF ip \in DOMAIN parsed.map
                                    THEN parsed.map[ip] ELSE DefaultConnection],
                 connections |->
                    [p \in (DOMAIN parsed.map) \ {ip} |-> parsed.map[p]]],
                reqs)

\* mutant: an entry counts as active whatever its record says
is_connection_active_Present(st, ip) == ip \in DOMAIN st.connections

\* Status::is_connection_active
is_connection_active(st, ip) ==
    ip \in DOMAIN st.connections /\ is_active(st.connections[ip])

\* mutant: the fast path is taken whether or not force is set
approve_IgnoreForce(w, force) ==
    LET s == status(w)
        ip == s.val.system_status.ip
        reqs == s.reqs \o <<Post(APPROVE_PATH)>>
    IN  IF ~s.ok THEN ErrMsg(s.err, s.msg, NoIp, s.reqs)
        ELSE IF is_active(s.val.system_status.connection)
             THEN Ok(ip, s.reqs)
        ELSE IF ~w.approve_post.sent THEN Err("Reqwest", NoIp, reqs)
        ELSE IF ~w.approve_post.success
             THEN ErrMsg("Other", <<"Approve response failed with status">>, NoIp, reqs)
        ELSE IF w.approve_post.path = INDEX_PATH THEN Ok(ip, reqs)
        ELSE ErrMsg("Other", <<"Unexpected URL path in approve response",
                               w.approve_post.path>>, NoIp, reqs)

\* mutant: a response with a success status counts as success whatever its path
approve_AnyPath(w, force) ==
    LET s == status(w)
        ip == s.val.system_status.ip
        reqs == s.reqs \o <<Post(APPROVE_PATH)>>
    IN  IF ~s.ok THEN ErrMsg(s.err, s.msg, NoIp, s.reqs)
        ELSE IF ~force /\ is_active(s.val.system_status.connection)
             THEN Ok(ip, s.reqs)
        ELSE IF ~w.approve_post.sent THEN Err("Reqwest", NoIp, reqs)
        ELSE IF ~w.approve_post.success
             THEN ErrMsg("Other", <<"Approve response failed with status">>, NoIp, reqs)
        ELSE Ok(ip, reqs)

\* AccountManager::approve
approve(w, force) ==
    LET s == status(w)
        ip == s.val.system_status.ip
        reqs == s.reqs \o <<Post(APPROVE_PATH)>>
    IN  IF ~s.ok THEN ErrMsg(s.err, s.msg, NoIp, s.reqs)
        ELSE IF ~force /\ is_active(s.val.system_status.connection)
             THEN Ok(ip, s.reqs)
        ELSE IF ~w.approve_post.sent THEN Err("Reqwest", NoIp, reqs)
        ELSE IF ~w.approve_post.success
             THEN ErrMsg("Other", <<"Approve response failed with status">>, NoIp, reqs)
        ELSE IF w.approve_post.path = INDEX_PATH THEN Ok(ip, reqs)
        ELSE ErrMsg("Other", <<"Unexpected URL path in approve response",
                               w.approve_post.path>>, NoIp, reqs)

\* the ip argument of revoke: None, or Some(text); the text parses to an
\* address when it is one of the addresses modelled
NoArg == "None"
BadIpText == "10.0.0"
IpArgs == {NoArg, BadIpText} \cup IPs
parse_ip(text) == IF text \in IPs THEN Ok(text, <<>>) ELSE Err("Other", NoIp, <<>>)

\* AccountManager::revoke
revoke(w, arg) ==
    LET s == status(w)
        target == IF arg = NoArg
                  THEN (IF w.local_ip = NoIp THEN Err("Other", NoIp, <<>>)
                        ELSE Ok(w.local_ip, <<>>))
                  ELSE parse_ip(arg)
        ip == target.val
        reqs == s.reqs \o <<PostIp(REVOKE_PATH, ip)>>
    IN  IF ~s.ok THEN ErrMsg(s.err, s.msg, NoIp, s.reqs)
        ELSE IF ~target.ok
             THEN ErrMsg("Other", <<"Ip address is malformed", arg>>, NoIp, s.reqs)
        ELSE IF ~is_connection_active(s.val, ip) THEN Ok(ip, s.reqs)
        ELSE IF ~w.revoke_post.sent THEN Err("Reqwest", NoIp, reqs)
        ELSE IF ~w.revoke_post.success
             THEN ErrMsg("Other", <<"Revoke response failed with status">>, NoIp, reqs)
        ELSE IF w.revoke_post.path = INDEX_PATH THEN Ok(ip, reqs)
        ELSE ErrMsg("Other", <<"Unexpected URL path in revoke response",
                               w.revoke_post.path>>, NoIp, reqs)

(* ------------------- the portal the monitor talks to ------------------ *)
Header == [ip_cell |-> "missing", ip |-> NoIp, vt_cell |-> "missing",
           valid_till |-> 0, span |-> "missing"]
Row(ip, vt, label) == [ip_cell |-> "ok", ip |-> ip, vt_cell |-> "ok",
                       valid_till |-> vt, span |-> label]

\* a logged-in session whose table holds 10.0.0.1, active until MaxTime
BaseWorld ==
    [probe |-> Response(TRUE, INDEX_PATH), login_post |-> Response(TRUE, INDEX_PATH),
     index_fetch |-> "ok",
     html |-> [tbody |-> TRUE, rows |-> <<Header, Row("10.0.0.1", MaxTime, "Active")>>],
     now |-> 0, local_ip |-> "10.0.0.1",
     approve_post |-> Response(TRUE, INDEX_PATH),
     revoke_post |-> Response(TRUE, INDEX_PATH)]

\* the worlds a status query of the monitor may meet (the own row active,
\* the own IP absent from the table, rejected credentials, a transport
\* failure) and those its approve call may meet (the own row expired and the
\* form reaches the index, or does not)
StatusWorlds ==
    { BaseWorld,
      [BaseWorld EXCEPT !.local_ip = "10.0.0.2"],
      [BaseWorld EXCEPT !.probe = Response(TRUE, LOGIN_PATH),
                        !.login_post = Response(TRUE, LOGIN_PATH)],
      [BaseWorld EXCEPT !.index_fetch = "transport_err"] }

ApproveWorlds ==
    { [BaseWorld EXCEPT !.now = MaxTime],
      [BaseWorld EXCEPT !.now = MaxTime, !.approve_post = Response(TRUE, OTHER_PATH)] }

\* the suspend durations start() is given, in seconds
SuspendDurations == {30}
\* the users start() is given
Users == {"user"}

(* ----------------------------- monitor.rs ----------------------------- *)
VARIABLES
    handle,      \* Monitor.handle: "None" or "Some"; the fields from pc on are the state
                 \* of the execution spawned last
    live,        \* the number of executions spawned and neither finished nor aborted
    nStart,      \* history: calls of start() made so far
    nSpawn,      \* history: executions spawned so far
    pc,          \* where the execution is suspended
    suspend_duration,  \* the suspend_duration start() was given
    sys,         \* run()'s SystemStatus { ip, connection }
    err,         \* the error run() returned, not yet handed to the consumer
    timerDone,   \* time::sleep(suspend_duration) has elapsed
    chan,        \* the lifecycle channel: the events sent and not yet received
        rxOpen,      \* its receiver is alive
    slot,        \* the watch channel's value
    watchOpen,   \* a watch receiver is alive
    hs,          \* hs[i]: the one-shot handle carried by the i-th emitted event
    emitted,     \* history: the events the channel accepted, in order
    received,    \* history: the events the consumer received, in order
    iter,        \* history: what the current iteration did, in order
    nIter,       \* history: iterations opened
    nStatus,     \* history: status queries the loop started
    nApprove,    \* history: approve calls started
    lastOk,      \* history: the SystemStatus of the last successful status query
    world,       \* the portal and the host a one-shot command of main() runs against
    call,        \* history: the client operation that command made, and its result
    user,        \* the user start() was given
    asked,       \* history: the user the last status query or approve call was made for
    key          \* history: the key the consumer's key reader handed to its action last

vars == <<handle, live, nStart, nSpawn, pc, suspend_duration, sys, err, timerDone,
          chan, rxOpen, slot, watchOpen, hs, emitted, received, iter, nIter,
          nStatus, nApprove, lastOk, world, call, user, asked, key>>

client == <<world, call>>
monitor == <<handle, live, nStart, nSpawn, pc, suspend_duration, sys, err, timerDone,
             chan, rxOpen, slot, watchOpen, hs, emitted, received, iter, nIter,
             nStatus, nApprove, lastOk, user, asked, key>>
ctl == <<handle, live, nStart, nSpawn, suspend_duration, user>>
consumerSide == <<rxOpen, watchOpen, received, key>>
counters == <<nIter, nStatus, nApprove, asked>>

\* no client operation made yet
NoCall == [op |-> "none", force |-> FALSE, arg |-> "None", res |-> FALSE]

None == [some |-> FALSE, v |-> NoStatus.system_status]
Some(v) == [some |-> TRUE, v |-> v]

\* enum State
CheckingStatus(id) ==
    [kind |-> "CheckingStatus", id |-> id, ip |-> NoIp, duration |-> 0, error |-> "none"]
Approving(id, ip) ==
    [kind |-> "Approving", id |-> id, ip |-> ip, duration |-> 0, error |-> "none"]
Suspended(id, d) ==
    [kind |-> "Suspended", id |-> id, ip |-> NoIp, duration |-> d, error |-> "none"]
Error(id, e) ==
    [kind |-> "Error", id |-> id, ip |-> NoIp, duration |-> 0, error |-> e]

SendPcs == {"send_cs", "send_approving", "send_suspended", "send_err"}
Running == pc \notin {"idle", "done", "aborted"}

\* the id the next emitted event gets, and the handle of the current wait
NextId == Len(emitted) + 1
CurId == Len(emitted)

\* mutant: the channel hands the newest event out first
mpsc_send_Lifo(q, ev) == <<ev>> \o q

\* mpsc::Sender::send on an open channel with room: the event joins the queue
mpsc_send(q, ev) == Append(q, ev)
\* mutant: the channel is unbounded
HasRoom_Unbounded == TRUE

\* the send completes only when the queue has room
HasRoom == Len(chan) < ChanCap

\* state_sender.send(ev).await returning Ok: the event is in the channel
Emit(ev, h) ==
    /\ rxOpen
    /\ HasRoom
    /\ chan' = mpsc_send(chan, ev)
    /\ emitted' = Append(emitted, ev)
    /\ hs' = Append(hs, h)

\* mutant: the status query starts although the event was not accepted
EmitCheckingStatus_QueryFirst ==
    /\ pc = "send_cs"
    /\ nIter < MaxIter
    /\ pc' = "status"
    /\ iter' = iter \o <<"status">>
    /\ nIter' = nIter + 1
    /\ nStatus' = nStatus + 1
    /\ asked' = user
    /\ UNCHANGED <<client, ctl, consumerSide, sys, err, timerDone, chan, slot, hs, emitted,
                   nApprove, lastOk>>

\* run(): send_msg!(State::CheckingStatus), then account_manager.status(user)
\* is called and suspends on its first request
EmitCheckingStatus ==
    /\ pc = "send_cs"
    /\ nIter < MaxIter
    /\ Emit(CheckingStatus(NextId), "none")
    /\ pc' = "status"
    /\ iter' = iter \o <<"CheckingStatus", "status">>
    /\ nIter' = nIter + 1
    /\ nStatus' = nStatus + 1
    /\ asked' = user
    /\ UNCHANGED <<client, ctl, consumerSide, sys, err, timerDone, slot, nApprove, lastOk>>

\* send_msg! on a closed channel: run() returns Err("Message channel closed")
SendFail ==
    /\ pc \in {"send_cs", "send_approving", "send_suspended"}
    /\ ~rxOpen
    /\ pc' = "send_err"
    /\ err' = "Message channel closed"
    /\ iter' = Append(iter, "send_failed")
    /\ UNCHANGED <<client, ctl, consumerSide, counters, sys, timerDone, chan, slot, hs,
                   emitted, lastOk>>

\* mutant: the branch on connection.is_active() is inverted
StatusDone_Inverted ==
    /\ pc = "status"
    /\ \E w \in StatusWorlds :
        LET r == status(w) IN
        IF ~r.ok
        THEN /\ pc' = "send_err"
             /\ err' = r.err
             /\ iter' = Append(iter, "status_err")
             /\ UNCHANGED <<sys, slot, lastOk>>
        ELSE /\ lastOk' = Some(r.val.system_status)
             /\ IF ~watchOpen
                THEN /\ pc' = "send_err"
                     /\ err' = "State channel closed"
                     /\ iter' = iter \o <<"status_ok", "slot_err">>
                     /\ UNCHANGED <<sys, slot>>
                ELSE /\ slot' = Some(r.val.system_status)
                     /\ sys' = r.val.system_status
                     /\ iter' = Append(iter, "status_ok")
                     /\ pc' = IF is_active(r.val.system_status.connection)
                              THEN "send_approving" ELSE "send_suspended"
                     /\ UNCHANGED err
    /\ UNCHANGED <<client, ctl, consumerSide, counters, timerDone, chan, hs, emitted>>

\* mutant: a failed status query clears the slot
StatusDone_ClearOnError ==
    /\ pc = "status"
    /\ \E w \in StatusWorlds :
        LET r == status(w) IN
        IF ~r.ok
        THEN /\ pc' = "send_err"
             /\ err' = r.err
             /\ iter' = Append(iter, "status_err")
             /\ slot' = None
             /\ UNCHANGED <<sys, lastOk>>
        ELSE /\ lastOk' = Some(r.val.system_status)
             /\ IF ~watchOpen
                THEN /\ pc' = "send_err"
                     /\ err' = "State channel closed"
                     /\ iter' = iter \o <<"status_ok", "slot_err">>
                     /\ UNCHANGED <<sys, slot>>
                ELSE /\ slot' = Some(r.val.system_status)
                     /\ sys' = r.val.system_status
                     /\ iter' = Append(iter, "status_ok")
                     /\ pc' = IF ~is_active(r.val.system_status.connection)
                              THEN "send_approving" ELSE "send_suspended"
                     /\ UNCHANGED err
    /\ UNCHANGED <<client, ctl, consumerSide, counters, timerDone, chan, hs, emitted>>

\* run(): status(user).await returned; on Ok the slot is written and the
\* branch on connection.is_active() is taken, up to the next send
StatusDone ==
    /\ pc = "status"
    /\ \E w \in StatusWorlds :
        LET r == status(w) IN
        IF ~r.ok
        THEN /\ pc' = "send_err"
             /\ err' = r.err
             /\ iter' = Append(iter, "status_err")
             /\ UNCHANGED <<sys, slot, lastOk>>
        ELSE /\ lastOk' = Some(r.val.system_status)
             /\ IF ~watchOpen
                THEN /\ pc' = "send_err"
                     /\ err' = "State channel closed"
                     /\ iter' = iter \o <<"status_ok", "slot_err">>
                     /\ UNCHANGED <<sys, slot>>
                ELSE /\ slot' = Some(r.val.system_status)
                     /\ sys' = r.val.system_status
                     /\ iter' = Append(iter, "status_ok")
                     /\ pc' = IF ~is_active(r.val.system_status.connection)
                              THEN "send_approving" ELSE "send_suspended"
                     /\ UNCHANGED err
    /\ UNCHANGED <<client, ctl, consumerSide, counters, timerDone, chan, hs, emitted>>

\* run(): send_msg!(State::Approving(ip)), then approve(user, duration_index,
\* false) is called and suspends on its first request
EmitApproving ==
    /\ pc = "send_approving"
    /\ Emit(Approving(NextId, sys.ip), "none")
    /\ pc' = "approve"
    /\ iter' = iter \o <<"Approving", "approve">>
    /\ nApprove' = nApprove + 1
    /\ asked' = user
    /\ UNCHANGED <<client, ctl, consumerSide, sys, err, timerDone, slot, nIter, nStatus, lastOk>>

\* mutant: a completed approve call is followed by the suspension
ApproveDone_ThenSuspend ==
    /\ pc = "approve"
    /\ \E w \in ApproveWorlds :
        LET r == approve(w, FALSE) IN
        IF r.ok
        THEN /\ pc' = "send_suspended"
             /\ UNCHANGED <<iter, err>>
        ELSE /\ pc' = "send_err"
             /\ err' = r.err
             /\ iter' = Append(iter, "approve_err")
    /\ UNCHANGED <<client, ctl, consumerSide, counters, sys, timerDone, chan, slot, hs,
                   emitted, lastOk>>

\* run(): approve(..).await returned; Ok ends the iteration with Ok(())
ApproveDone ==
    /\ pc = "approve"
    /\ \E w \in ApproveWorlds :
        LET r == approve(w, FALSE) IN
        IF r.ok
        THEN /\ pc' = "send_cs"
             /\ iter' = <<>>
             /\ UNCHANGED err
        ELSE /\ pc' = "send_err"
             /\ err' = r.err
             /\ iter' = Append(iter, "approve_err")
    /\ UNCHANGED <<client, ctl, consumerSide, counters, sys, timerDone, chan, slot, hs,
                   emitted, lastOk>>

\* run(): oneshot::channel(), send_msg!(State::Suspended {..}), then select!
EmitSuspended ==
    /\ pc = "send_suspended"
    /\ Emit(Suspended(NextId, suspend_duration), "pending")
    /\ pc' = "suspended"
    /\ timerDone' = FALSE
    /\ iter' = Append(iter, "Suspended")
    /\ UNCHANGED <<client, ctl, consumerSide, counters, sys, err, slot, lastOk>>

\* the runtime's clock reaches the deadline of time::sleep(suspend_duration)
Tick ==
    /\ pc = "suspended"
    /\ ~timerDone
    /\ timerDone' = TRUE
    /\ UNCHANGED <<client, ctl, consumerSide, counters, pc, sys, err, chan, slot, hs,
                   emitted, iter, lastOk>>

\* the receiver of the current wait's one-shot channel is dropped: an unused
\* sender is left "stale", a used or dropped one is "spent"
Retire(h) ==
    IF h = <<>> THEN h
    ELSE [h EXCEPT ![Len(h)] = IF @ = "pending" THEN "stale"
                               ELSE IF @ \in {"sent", "dropped"} THEN "spent"
                               ELSE @]

\* run() returned Ok(()), or the retry arrived: the loop goes round
NextIteration ==
    /\ pc' = "send_cs"
    /\ iter' = <<>>
    /\ hs' = Retire(hs)
    /\ UNCHANGED <<client, ctl, consumerSide, counters, sys, err, timerDone, chan, slot, emitted,
                   lastOk>>

\* select!: time::sleep(suspend_duration) completed
TimerElapsed ==
    /\ pc = "suspended"
    /\ timerDone
    /\ NextIteration

\* mutant: the wake signal is looked at only once the timer has elapsed
Woken_AfterTimer ==
    /\ pc = "suspended"
    /\ timerDone
    /\ hs[CurId] \in {"sent", "dropped"}
    /\ NextIteration

\* mutant: one channel serves every wait, so that a signal on the handle of
\* an earlier wait wakes the current one
Woken_AnyHandle ==
    /\ pc = "suspended"
    /\ \E i \in 1..CurId : hs[i] \in {"sent", "dropped", "spent"}
    /\ NextIteration

\* select!: wake_receiver resolved, with Ok(()) or with the sender dropped
Woken ==
    /\ pc = "suspended"
    /\ hs[CurId] \in {"sent", "dropped"}
    /\ NextIteration

\* mutant: rejected credentials end the task, other failures are reported
EmitError_CredentialsFatal ==
    /\ pc = "send_err"
    /\ IF err = "InvalidCredentials"
       THEN /\ pc' = "done"
            /\ live' = live - 1
            /\ hs' = Retire(hs)
            /\ UNCHANGED <<client, handle, nStart, nSpawn, suspend_duration, user,
                           consumerSide, counters, sys, err, timerDone, chan, slot,
                           emitted, iter, lastOk>>
       ELSE /\ Emit(Error(NextId, err), "pending")
            /\ pc' = "parked"
            /\ iter' = Append(iter, "Error")
            /\ UNCHANGED <<client, ctl, consumerSide, counters, sys, err, timerDone, slot,
                           lastOk>>

\* start(): run() returned Err; oneshot::channel(), send(State::Error {..})
EmitError ==
    /\ pc = "send_err"
    /\ Emit(Error(NextId, err), "pending")
    /\ pc' = "parked"
    /\ iter' = Append(iter, "Error")
    /\ UNCHANGED <<client, ctl, consumerSide, counters, sys, err, timerDone, slot, lastOk>>

\* start(): break: the task ends, its JoinHandle stays in Monitor.handle
Finish ==
    /\ pc' = "done"
    /\ live' = live - 1
    /\ hs' = Retire(hs)
    /\ UNCHANGED <<client, handle, nStart, nSpawn, suspend_duration, user, consumerSide,
                   counters, sys, err, timerDone, chan, slot, emitted, iter, lastOk>>

\* mutant: the loop goes round although the Error event cannot be sent
ErrorFail_Continue ==
    /\ pc = "send_err"
    /\ ~rxOpen
    /\ NextIteration

\* start(): the Error event cannot be sent: break
ErrorFail ==
    /\ pc = "send_err"
    /\ ~rxOpen
    /\ Finish

\* mutant: the Error wait ends without a retry signal
Retried_Unsignalled ==
    /\ pc = "parked"
    /\ NextIteration

\* mutant: the retry signal ends the task
Retried_Break ==
    /\ pc = "parked"
    /\ hs[CurId] = "sent"
    /\ Finish

\* start(): retry_receiver.await is Ok(()): the loop goes round
Retried ==
    /\ pc = "parked"
    /\ hs[CurId] = "sent"
    /\ NextIteration

\* mutant: a dropped retry handle counts as a retry
RetryDead_Continue ==
    /\ pc = "parked"
    /\ hs[CurId] = "dropped"
    /\ NextIteration

\* start(): retry_receiver.await is Err: break
RetryDead ==
    /\ pc = "parked"
    /\ hs[CurId] = "dropped"
    /\ Finish

MonitorStep ==
    \/ EmitCheckingStatus
    \/ SendFail
    \/ StatusDone
    \/ EmitApproving
    \/ ApproveDone
    \/ EmitSuspended
    \/ TimerElapsed
    \/ Woken
    \/ EmitError
    \/ ErrorFail
    \/ Retried
    \/ RetryDead

(* ----------------------------- controller ----------------------------- *)
\* tokio::spawn of the loop, on the fresh pair of channels start() was given
Spawn(u, d) ==
    /\ handle' = "Some"
    /\ live' = live + 1
    /\ nSpawn' = nSpawn + 1
    /\ suspend_duration' = d
    /\ user' = u
    /\ asked' = "none"
    /\ key' = "none"
    /\ pc' = "send_cs"
    /\ sys' = NoStatus.system_status
    /\ err' = "none"
    /\ timerDone' = FALSE
    /\ chan' = <<>>
    /\ rxOpen' = TRUE
    /\ slot' = None
    /\ watchOpen' = TRUE
    /\ hs' = <<>>
    /\ emitted' = <<>>
    /\ received' = <<>>
    /\ iter' = <<>>
    /\ nIter' = 0
    /\ nStatus' = 0
    /\ nApprove' = 0
    /\ lastOk' = None
    /\ UNCHANGED client

\* mutant: start() without the check of self.handle
start_Unguarded(u, d) ==
    /\ nStart < MaxStarts
    /\ nStart' = nStart + 1
    /\ Spawn(u, d)

\* Monitor::start
start(u, d) ==
    /\ nStart < MaxStarts
    /\ nStart' = nStart + 1
    /\ IF handle # "None"
       THEN UNCHANGED <<client, handle, live, nSpawn, pc, suspend_duration, sys, err,
                        timerDone, chan, rxOpen, slot, watchOpen, hs, emitted, received,
                        iter, nIter, nStatus, nApprove, lastOk, user, asked, key>>
       ELSE Spawn(u, d)

Start == \E u \in Users, d \in SuspendDurations : start(u, d)

\* JoinHandle::abort: the task is dropped where it is suspended, unless it
\* has already ended
abort ==
    /\ pc' = IF pc = "done" THEN "done" ELSE "aborted"
    /\ live' = IF pc = "done" THEN live ELSE live - 1
    /\ hs' = Retire(hs)

\* mutant: stop() leaves the task running and only forgets its handle
stop_Detach ==
    /\ handle # "None"
    /\ handle' = "None"
    /\ live' = IF pc = "done" THEN live ELSE live - 1
    /\ UNCHANGED <<client, nStart, nSpawn, suspend_duration, user, consumerSide,
                   counters, pc, sys, err, timerDone, chan, slot, hs, emitted, iter, lastOk>>

\* Monitor::stop: self.handle.take(), and abort() of the handle taken; with no
\* handle to take the call does nothing
stop ==
    IF handle = "None"
    THEN UNCHANGED vars
    ELSE /\ handle' = "None"
         /\ abort
         /\ UNCHANGED <<client, nStart, nSpawn, suspend_duration, user, consumerSide,
                        counters, sys, err, timerDone, chan, slot, emitted, iter, lastOk>>

(* ------------------------------ consumer ------------------------------ *)
\* state_receiver.recv().await returning Some(state)
Recv ==
    /\ rxOpen
    /\ chan # <<>>
    /\ received' = Append(received, Head(chan))
    /\ chan' = Tail(chan)
    /\ UNCHANGED <<client, ctl, counters, pc, sys, err, timerDone, rxOpen, slot,
                   watchOpen, hs, emitted, iter, lastOk, key>>

\* the consumer holds the unused sender of the i-th event's one-shot channel
Held(i) ==
    /\ i \in 1..Len(hs)
    /\ hs[i] \in {"pending", "stale"}
    /\ \E k \in 1..Len(received) : received[k].id = i

\* wake_sender.send(()) / retry_sender.send(())
Signal ==
    /\ \E i \in 1..Len(hs) :
        /\ Held(i)
        /\ hs' = [hs EXCEPT ![i] = IF @ = "pending" THEN "sent" ELSE "spent"]
    /\ UNCHANGED <<client, ctl, consumerSide, counters, pc, sys, err, timerDone, chan, slot,
                   emitted, iter, lastOk>>

\* the consumer drops a handle unused
DropHandle ==
    /\ \E i \in 1..Len(hs) :
        /\ Held(i)
        /\ hs' = [hs EXCEPT ![i] = IF @ = "pending" THEN "dropped" ELSE "spent"]
    /\ UNCHANGED <<client, ctl, consumerSide, counters, pc, sys, err, timerDone, chan, slot,
                   emitted, iter, lastOk>>

\* the consumer drops the receiver: the queued events are dropped with it,
\* and the handles they carry
CloseEvents ==
    /\ rxOpen
    /\ rxOpen' = FALSE
    /\ chan' = <<>>
    /\ hs' = [i \in 1..Len(hs) |->
                IF \E k \in 1..Len(chan) : chan[k].id = i
                THEN (IF hs[i] = "pending" THEN "dropped"
                      ELSE IF hs[i] = "stale" THEN "spent" ELSE hs[i])
                ELSE hs[i]]
    /\ UNCHANGED <<client, ctl, counters, pc, sys, err, timerDone, slot, watchOpen,
                   received, emitted, iter, lastOk, key>>

\* the consumer drops the watch receiver
CloseWatch ==
    /\ watchOpen
    /\ watchOpen' = FALSE
    /\ UNCHANGED <<client, ctl, counters, pc, sys, err, timerDone, chan, slot, rxOpen,
                   received, hs, emitted, iter, lastOk, key>>

\* Monitor::new, and no channel made yet
MonitorInit ==
    /\ handle = "None"
    /\ live = 0
    /\ nStart = 0
    /\ nSpawn = 0
    /\ pc = "idle"
    /\ suspend_duration = 0
    /\ sys = NoStatus.system_status
    /\ err = "none"
    /\ timerDone = FALSE
    /\ chan = <<>>
    /\ rxOpen = FALSE
    /\ slot = None
    /\ watchOpen = FALSE
    /\ hs = <<>>
    /\ emitted = <<>>
    /\ received = <<>>
    /\ iter = <<>>
    /\ nIter = 0
    /\ nStatus = 0
    /\ nApprove = 0
    /\ lastOk = None
    /\ user = "none"
    /\ asked = "none"
    /\ key = "none"

Init ==
    /\ MonitorInit
    /\ world = BaseWorld
    /\ call = NoCall

Next ==
    \/ MonitorStep
    \/ Tick
    \/ Start
    \/ stop
    \/ Recv
    \/ Signal
    \/ DropHandle
    \/ CloseEvents
    \/ CloseWatch

Spec == Init /\ [][Next]_vars

\* the runtime polls a task that can make a step; the clock, the consumer
\* and the controller are under no obligation
FairSpec == Spec /\ WF_vars(MonitorStep)

(* ------------------ the terminal consumer (monitor_ui) ----------------- *)
\* KeyInput: the keys KeyInput::try_from accepts; any other key is skipped
Keys == {"Quit", "Wakeup", "Retry"}

\* the state the consumer received last, 0 before the first
Displayed == IF received = <<>> THEN 0 ELSE received[Len(received)].id

\* the consumer holds the sender of the state it received last, unused: the
\* key reader has not yet called its action
Holding == Displayed # 0 /\ hs[Displayed] \in {"pending", "stale"}

\* oneshot::Sender::send
Used(h, i) == [h EXCEPT ![i] = IF @ = "pending" THEN "sent" ELSE "spent"]

\* the senders of the events in ids are dropped, those not yet used unused
Dropped(h, ids) ==
    [i \in 1..Len(h) |->
        IF i \in ids
        THEN (IF h[i] = "pending" THEN "dropped" ELSE IF h[i] = "stale" THEN "spent" ELSE h[i])
        ELSE h[i]]

Queued == {chan[k].id : k \in 1..Len(chan)}

\* ui_event_loop: recv() returns a state; the key reader of the state before
\* is cancelled, and its action dropped with the sender in it; the state is
\* drawn and, for Suspended and Error, a key reader made that owns the sender
UiRecv ==
    /\ rxOpen
    /\ chan # <<>>
    /\ received' = Append(received, Head(chan))
    /\ chan' = Tail(chan)
    /\ hs' = Dropped(hs, IF Holding THEN {Displayed} ELSE {})
    /\ key' = "none"
    /\ UNCHANGED <<client, ctl, counters, pc, sys, err, timerDone, rxOpen, slot,
                   watchOpen, emitted, iter, lastOk>>

\* KeyInputReader::new: the first accepted key is handed to the action, an
\* FnOnce, and the reader ends: Wakeup on Suspended and Retry on Error send on
\* the sender; any other accepted key runs the `_ => {}` or the Quit arm, and
\* the action, consumed by the call, drops the sender it owns. Quit cancels
\* the caller's token, which no code of these sources reads.
UiKey ==
    \E k \in Keys :
        /\ Holding
        /\ key' = k
        /\ hs' = IF \/ k = "Wakeup" /\ emitted[Displayed].kind = "Suspended"
                    \/ k = "Retry" /\ emitted[Displayed].kind = "Error"
                 THEN Used(hs, Displayed)
                 ELSE Dropped(hs, {Displayed})
        /\ UNCHANGED <<client, ctl, counters, pc, sys, err, timerDone, chan, slot, rxOpen,
                       watchOpen, received, emitted, iter, lastOk>>

\* ui_event_loop: terminal.draw(..)? fails on the state just received: the
\* loop returns, dropping that state, both receivers and the queued states
UiFail ==
    /\ rxOpen
    /\ chan # <<>>
    /\ rxOpen' = FALSE
    /\ watchOpen' = FALSE
    /\ chan' = <<>>
    /\ hs' = Dropped(hs, Queued \cup (IF Holding THEN {Displayed} ELSE {}))
    /\ UNCHANGED <<client, ctl, counters, pc, sys, err, timerDone, slot, received,
                   emitted, iter, lastOk, key>>

\* ui_event_loop: recv() returns None, the task and its senders being gone:
\* the loop ends and both receivers are dropped; a key reader still waiting
\* for its key is left running
UiExit ==
    /\ rxOpen
    /\ chan = <<>>
    /\ pc \in {"done", "aborted"}
    /\ rxOpen' = FALSE
    /\ watchOpen' = FALSE
    /\ UNCHANGED <<client, ctl, counters, pc, sys, err, timerDone, chan, slot, received,
                   hs, emitted, iter, lastOk, key>>

UiNext ==
    \/ MonitorStep
    \/ Tick
    \/ Start
    \/ stop
    \/ UiRecv
    \/ UiKey
    \/ UiFail
    \/ UiExit

UiSpec == Init /\ [][UiNext]_vars

(* ---------------- the line-based consumer (main.rs) -------------------- *)
\* handle_monitor_messages: recv() returns a message and its arm runs; the
\* arms of Suspended and Error then wait in listen_for_interrupt, the sender
\* in hand, and the loop receives nothing until that wait is over
LineRecv ==
    /\ rxOpen
    /\ chan # <<>>
    /\ ~Holding
    /\ received' = Append(received, Head(chan))
    /\ chan' = Tail(chan)
    /\ key' = "none"
    /\ UNCHANGED <<client, ctl, counters, pc, sys, err, timerDone, rxOpen, slot,
                   watchOpen, hs, emitted, iter, lastOk>>

\* the consumer returns with an error: the receiver is dropped, the queued
\* messages with it, and the sender in hand
LineBail ==
    /\ rxOpen' = FALSE
    /\ chan' = <<>>
    /\ hs' = Dropped(Used(hs, Displayed), Queued)

\* listen_for_interrupt returns: the line asked for was entered (any other
\* line is read over); wake_sender.send(()) or retry_sender.send(()) follows,
\* and the consumer bails out when it returns Err, the receiver being gone
LineInterrupt ==
    /\ rxOpen
    /\ Holding
    /\ key' = IF emitted[Displayed].kind = "Suspended" THEN "Wakeup" ELSE "Retry"
    /\ IF hs[Displayed] = "pending"
       THEN /\ hs' = Used(hs, Displayed)
            /\ UNCHANGED <<rxOpen, chan>>
       ELSE LineBail
    /\ UNCHANGED <<client, ctl, counters, pc, sys, err, timerDone, slot, watchOpen,
                   received, emitted, iter, lastOk>>

\* restore_cursor()? or read_line fails: the consumer returns the error
LineIoFail ==
    /\ rxOpen
    /\ received # <<>>
    /\ rxOpen' = FALSE
    /\ chan' = <<>>
    /\ hs' = Dropped(hs, Queued \cup (IF Holding THEN {Displayed} ELSE {}))
    /\ UNCHANGED <<client, ctl, counters, pc, sys, err, timerDone, slot, watchOpen,
                   received, emitted, iter, lastOk, key>>

\* main starts the monitor and never stops it
LineNext ==
    \/ MonitorStep
    \/ Tick
    \/ Start
    \/ LineRecv
    \/ LineInterrupt
    \/ LineIoFail

LineSpec == Init /\ [][LineNext]_vars

(* ---------------------- one-shot commands of main() ------------------- *)
\* the rows a table may hold: well formed (active until MaxTime, or labelled
\* otherwise and valid until 1), or with one cell missing, without text or
\* unparsable
WellFormedRows ==
    {Row(ip, MaxTime, "Active") : ip \in IPs} \cup {Row(ip, 1, "Expired") : ip \in IPs}
MalformedRows ==
    {[Row("10.0.0.1", MaxTime, "Active") EXCEPT !.ip_cell = c] :
        c \in {"missing", "notext", "bad"}}
    \cup {[Row("10.0.0.1", MaxTime, "Active") EXCEPT !.vt_cell = c] :
        c \in {"missing", "notext", "bad"}}
    \cup {[Row("10.0.0.1", MaxTime, "Active") EXCEPT !.span = c] :
        c \in {"missing", "notext"}}
Rows == WellFormedRows \cup MalformedRows

RECURSIVE SeqsUpTo(_, _)
SeqsUpTo(S, n) ==
    IF n = 0 THEN {<<>>}
    ELSE LET shorter == SeqsUpTo(S, n - 1)
         IN  shorter \cup {Append(q, x) : q \in shorter, x \in S}

\* the documents: no table body, a table body without rows, or a first row
\* (the header, or a row that would parse) followed by up to MaxRows rows
Htmls ==
    {[tbody |-> FALSE, rows |-> <<>>], [tbody |-> TRUE, rows |-> <<>>]}
    \cup {[tbody |-> TRUE, rows |-> <<first>> \o data] :
            first \in {Header, Row("10.0.0.2", MaxTime, "Active")},
            data \in SeqsUpTo(Rows, MaxRows)}

\* every outcome of the session's exchanges and of the address lookup
SessionWorlds ==
    {[BaseWorld EXCEPT !.probe = p, !.login_post = l, !.index_fetch = f, !.local_ip = a] :
        p \in Exchanges, l \in Exchanges, f \in {"ok", "transport_err", "body_err"},
        a \in IPs \cup {NoIp}}
\* every document, before and after the expiry, seen from either address
TableWorlds ==
    {[BaseWorld EXCEPT !.html = h, !.now = n, !.local_ip = a] :
        h \in Htmls, n \in {0, MaxTime}, a \in IPs}
\* every outcome of the approve and revoke requests, over tables in which
\* either, both or none of the addresses is active
PostWorlds ==
    {[BaseWorld EXCEPT !.html = [tbody |-> TRUE, rows |-> <<Header>> \o data],
                       !.now = n, !.local_ip = a, !.approve_post = x, !.revoke_post = y] :
        data \in {<<Row("10.0.0.1", MaxTime, "Active")>>,
                  <<Row("10.0.0.1", MaxTime, "Active"), Row("10.0.0.2", MaxTime, "Active")>>},
        n \in {0, MaxTime}, a \in IPs, x \in Exchanges, y \in Exchanges}
Worlds == SessionWorlds \cup TableWorlds \cup PostWorlds

Called(op, force, arg, res) ==
    /\ call = NoCall
    /\ call' = [op |-> op, force |-> force, arg |-> arg, res |-> res]
    /\ UNCHANGED <<world, monitor>>

\* login(user, false) as status() makes it, login(user, true) as
\* check_user_passowrd() makes it
CallLogin ==
    \/ Called("login", FALSE, NoArg, login(world, FALSE))
    \/ Called("login", TRUE, NoArg, check_user_passowrd(world))
\* parse_connections(&html) as status() makes it
CallParse == Called("parse", FALSE, NoArg, parse_connections(world.html, world.now))
\* display_status
CallStatus == Called("status", FALSE, NoArg, status(world))
\* Command::Approve { duration, force }
CallApprove == \E force \in BOOLEAN : Called("approve", force, NoArg, approve(world, force))
\* Command::Revoke { ip }
CallRevoke == \E arg \in IpArgs : Called("revoke", FALSE, arg, revoke(world, arg))
\* connection.is_active() as create_connection_status_string() asks it of an
\* entry of the parsed table
CallIsActive ==
    \E ip \in IPs :
        LET parsed == parse_connections(world.html, world.now)
        IN  /\ parsed.ok
            /\ ip \in DOMAIN parsed.map
            /\ Called("is_active", FALSE, ip, is_active(parsed.map[ip]))

ClientInit ==
    /\ MonitorInit
    /\ world \in Worlds
    /\ call = NoCall

ClientNext ==
    \/ CallLogin
    \/ CallParse
    \/ CallStatus
    \/ CallApprove
    \/ CallRevoke
    \/ CallIsActive

ClientSpec == ClientInit /\ [][ClientNext]_vars

(* ------------------------------- claims ------------------------------- *)
LastKind == IF emitted = <<>> THEN "none" ELSE emitted[CurId].kind
Has(x) == \E i \in 1..Len(iter) : iter[i] = x
NumKind(k) == Cardinality({i \in 1..Len(emitted) : emitted[i].kind = k})

\* C1: after an Error event is emitted, and for as long as no retry signal
\* has been sent on the handle that event carries, the monitor stays where
\* it is (or ends, or is aborted): no status query starts, no approve call
\* starts and no event is emitted, however many steps the rest of the system
\* takes and whether or not the clock advances.
C1_ParkedUntilRetry ==
    [][(LastKind = "Error" /\ hs[CurId] \in {"pending", "dropped"})
        => /\ pc = "parked"
           /\ pc' \in {"parked", "done", "aborted"}
           /\ nStatus' = nStatus
           /\ nApprove' = nApprove
           /\ emitted' = emitted]_vars

\* the monitor is parked on an Error whose retry handle the consumer holds
\* unused, after an earlier iteration has completed
C1_Witness ==
    /\ pc = "parked"
    /\ Held(CurId)
    /\ hs[CurId] = "pending"
    /\ nIter = MaxIter

\* C2: a Suspended wait ends by the timer, by the wake handle (or by an
\* abort) and by nothing else; once the wake signal is sent the monitor
\* starts its next iteration although the timer never elapses, and once the
\* timer has elapsed it starts its next iteration although no wake signal is
\* ever sent.
C2_SuspendedRace ==
    /\ [][(pc = "suspended" /\ pc' # "suspended")
            => /\ timerDone \/ hs[CurId] \in {"sent", "dropped"} \/ pc' = "aborted"
               /\ pc' \in {"send_cs", "aborted"}
               /\ pc' = "send_cs" => iter' = <<>>]_vars
    /\ (pc = "suspended" /\ hs[CurId] = "sent") ~> (pc \in {"send_cs", "aborted"})
    /\ (pc = "suspended" /\ timerDone) ~> (pc \in {"send_cs", "aborted"})

\* the wake signal ended a Suspended wait whose timer had not elapsed
C2_Witness ==
    /\ pc = "status"
    /\ nIter = 2
    /\ emitted[CurId - 1].kind = "Suspended"
    /\ hs[CurId - 1] = "spent"
    /\ ~timerDone

\* C3: every status query of the loop starts with the CheckingStatus event of
\* its iteration already accepted by the channel: the queries started are as
\* many as the CheckingStatus events emitted, and while a query is in flight
\* the last event emitted is CheckingStatus and it opened the iteration.
C3_CheckingStatusFirst ==
    /\ nStatus = NumKind("CheckingStatus")
    /\ Has("status") => (Len(iter) >= 2 /\ iter[1] = "CheckingStatus" /\ iter[2] = "status")
    /\ pc = "status" => LastKind = "CheckingStatus"

\* the status query of a second iteration is in flight
C3_Witness ==
    /\ pc = "status"
    /\ nStatus = 2
    /\ LastKind = "CheckingStatus"

\* the event of the given kind emitted last
LastOfKind(k) ==
    emitted[CHOOSE i \in 1..Len(emitted) :
                /\ emitted[i].kind = k
                /\ \A j \in (i + 1)..Len(emitted) : emitted[j].kind # k]
Active == is_active(lastOk.v.connection)

C5_ErrorParksAndRetries ==
    /\ [][(pc' = "done" /\ pc # "done") => (~rxOpen \/ hs[CurId] = "dropped")]_vars
    /\ [][(pc \in {"status", "approve"} /\ pc' \notin {pc, "aborted", "send_cs"})
            => (pc' \in {"send_err", "send_approving", "send_suspended"}
                /\ (pc' = "send_err" => err' # "none"))]_vars
    /\ [][(pc = "send_err" /\ rxOpen /\ pc' # pc)
            => \/ pc' = "aborted"
               \/ /\ pc' = "parked"
                  /\ emitted' = Append(emitted, Error(NextId, err))
                  /\ hs'[NextId] = "pending"]_vars
    /\ [](pc = "parked"
            => /\ iter[Len(iter)] = "Error"
               /\ Cardinality({i \in 1..Len(iter) : iter[i] = "Error"}) = 1
               /\ emitted[CurId] = Error(CurId, err))
    /\ (pc = "parked" /\ hs[CurId] = "sent" /\ nIter < MaxIter)
            ~> (pc = "status" \/ pc = "aborted" \/ ~rxOpen)

\* after a failed status query and a retry, the next status query is in flight
C5_Witness ==
    /\ pc = "status"
    /\ nIter = 2
    /\ emitted[CurId - 1].kind = "Error"
    /\ emitted[CurId - 1].error = "InvalidCredentials"
    /\ hs[CurId - 1] = "spent"

\* C6: what the consumer has received is a prefix of what the monitor has
\* emitted, event for event, and while the receiver is alive the events
\* emitted are exactly those received followed by those queued, in order:
\* none lost, duplicated or reordered.
C6_FifoExactlyOnce ==
    /\ Len(received) <= Len(emitted)
    /\ \A i \in 1..Len(received) : received[i] = emitted[i]
    /\ rxOpen => emitted = received \o chan

\* three events received, two more queued
C6_Witness ==
    /\ Len(received) = 3
    /\ Len(chan) = 2
    /\ rxOpen

C8_LatestStatus ==
    /\ [](watchOpen => slot = lastOk)
    /\ []((Has("Approving") \/ Has("Suspended")
                \/ pc \in {"send_approving", "send_suspended"})
            => (slot = Some(sys) /\ slot = lastOk))
    /\ [][(pc = "status" /\ pc' = "send_err") => slot' = slot]_vars
    /\ [][(slot' # slot) => (pc = "status" \/ slot' = None)]_vars

\* a status query failed in the second iteration and the slot still holds
\* the first iteration's status
C8_Witness ==
    /\ watchOpen
    /\ slot.some
    /\ slot = lastOk
    /\ pc = "parked"
    /\ Has("status_err")
    /\ nIter = 2

\* C9: with the receiver of the event channel dropped no status query and no
\* approve call starts and nothing is emitted; an emission attempted then
\* fails, the Error event that follows cannot be sent either, and the task
\* ends.
C9_ClosedChannelEnds ==
    /\ [][(~rxOpen /\ ~rxOpen')
            => (nStatus' = nStatus /\ nApprove' = nApprove /\ emitted' = emitted)]_vars
    /\ [][(~rxOpen /\ pc \in {"send_cs", "send_approving", "send_suspended"} /\ pc' # pc)
            => pc' \in {"send_err", "aborted"}]_vars
    /\ [][(~rxOpen /\ pc = "send_err" /\ pc' # pc) => pc' \in {"done", "aborted"}]_vars
    /\ (~rxOpen /\ pc \in SendPcs) ~> (pc \in {"done", "aborted"})

\* the task has ended after an emission failed on the closed channel
C9_Witness ==
    /\ pc = "done"
    /\ ~rxOpen
    /\ Has("send_failed")
    /\ handle = "Some"

\* C10: at most one execution is live, and a start() made while one is live
\* changes nothing: no execution is spawned, and the live execution, its
\* channels and the handle are as they were.
C10_SingleExecution ==
    /\ [](live <= 1)
    /\ [](live = 1 => (handle = "Some" /\ Running))
    /\ [][(nStart' # nStart /\ live > 0)
            => UNCHANGED <<handle, live, nSpawn, pc, suspend_duration, sys, err,
                           timerDone, chan, rxOpen, slot, watchOpen, hs, emitted,
                           received, iter, nIter, nStatus, nApprove, lastOk>>]_vars

\* a second start() was ignored by a live execution that has emitted events
C10_Witness ==
    /\ nStart = 2
    /\ nSpawn = 1
    /\ live = 1
    /\ Len(emitted) > 0

\* C11: start() is a no-op only when an execution is live: a start() made
\* while no execution is live (none started yet, the last one stopped, or the
\* last one ended by itself on a closed event channel or a dropped retry
\* handle) spawns a new execution.
C11_StartWhenNotLive ==
    [][(nStart' # nStart /\ live = 0) => (nSpawn' = nSpawn + 1 /\ live' = 1)]_vars

\* C12: stop() takes effect wherever the execution is suspended (at an
\* emission, in a status query or an approve call, in the Suspended wait,
\* parked on an Error): it leaves the handle empty and no execution live, and
\* from then until the next start() the aborted execution emits no event,
\* does not write the slot and starts no status query or approve call; a
\* stop() made with the handle empty changes nothing; and the start() that
\* follows spawns a fresh execution on fresh channels.
C12_StopAborts ==
    /\ [](handle = "None" => (live = 0 /\ pc \in {"idle", "aborted", "done"}))
    /\ [][(handle = "Some" /\ handle' = "None")
            => /\ pc' = IF pc = "done" THEN "done" ELSE "aborted"
               /\ emitted' = emitted /\ slot' = slot /\ chan' = chan
               /\ nStatus' = nStatus /\ nApprove' = nApprove]_vars
    /\ [][(handle = "None" /\ handle' = "None")
            => /\ pc' = pc /\ live' = live
               /\ emitted' = emitted /\ slot' = slot
               /\ nStatus' = nStatus /\ nApprove' = nApprove /\ nIter' = nIter]_vars
    /\ [][(handle = "None" /\ handle' = "Some")
            => /\ nStart' = nStart + 1 /\ nSpawn' = nSpawn + 1 /\ live' = 1
               /\ pc' = "send_cs" /\ emitted' = <<>> /\ chan' = <<>> /\ hs' = <<>>
               /\ slot' = None /\ rxOpen' /\ watchOpen'
               /\ nStatus' = 0 /\ nApprove' = 0]_vars

\* the execution was stopped in the middle of its approve call, with events
\* it had emitted still queued
C12_Witness ==
    /\ handle = "None"
    /\ pc = "aborted"
    /\ iter # <<>>
    /\ iter[Len(iter)] = "approve"
    /\ chan # <<>>

\* what the claims about the client say of the call made: the status the
\* operation computed first, the portal's table as parsed, and whether a
\* request was among those issued
St == status(world)
Table == parse_connections(world.html, world.now).map
TableActive(ip) == ip \in DOMAIN Table /\ Table[ip].is_active /\ Table[ip].time_left > 0
Issued(req) == \E i \in 1..Len(call.res.reqs) : call.res.reqs[i] = req
NumIssued(req) == Cardinality({i \in 1..Len(call.res.reqs) : call.res.reqs[i] = req})

\* C13: for an approve whose status computation succeeds: with force unset
\* and the own connection active no approve POST is issued and the own IP is
\* returned, after the requests of the status computation and no other; with
\* force set one approve POST is issued whether the own connection is active
\* or not; with force unset and the own connection inactive one approve POST
\* is issued; and the POST is the last request made.
C13_ApproveFastPath ==
    (call.op = "approve" /\ St.ok)
    => LET own == St.val.system_status
           active == own.connection.is_active /\ own.connection.time_left > 0
       IN  /\ (~call.force /\ active)
                => (~Issued(Post(APPROVE_PATH)) /\ call.res = Ok(own.ip, St.reqs))
           /\ call.force => NumIssued(Post(APPROVE_PATH)) = 1
           /\ (~call.force /\ ~active) => NumIssued(Post(APPROVE_PATH)) = 1
           /\ Issued(Post(APPROVE_PATH))
                => call.res.reqs = St.reqs \o <<Post(APPROVE_PATH)>>

\* a forced approve issued its POST although the own connection is active
C13_Witness ==
    /\ call.op = "approve"
    /\ call.force
    /\ St.ok
    /\ TableActive(world.local_ip)
    /\ Issued(Post(APPROVE_PATH))
    /\ call.res.ok

\* the address revoke(user, ip) resolves its argument to
Target == IF call.arg = NoArg THEN world.local_ip ELSE call.arg

\* C14: for a revoke whose status computation succeeds and whose target (the
\* argument, or the own address when there is none) has an active connection
\* in the portal's table, a revoke request scoped to the target is issued,
\* the own address included.
C14_RevokeActiveTarget ==
    (call.op = "revoke" /\ St.ok /\ Target \in IPs /\ TableActive(Target))
    => Issued(PostIp(REVOKE_PATH, Target))

\* C15: for a revoke of Some(x) whose status computation succeeds and where
\* x's connection is inactive (its label is not Active, its time left is zero,
\* or x is not in the table), no request is issued beyond those of the status
\* computation and x is returned.
C15_RevokeInactiveNoop ==
    (call.op = "revoke" /\ call.arg \in IPs /\ St.ok /\ ~TableActive(call.arg))
    => /\ call.res = Ok(call.arg, St.reqs)
       /\ ~Issued(PostIp(REVOKE_PATH, call.arg))

\* revoke returned an address other than the own one, which the table holds
\* labelled Active with its time run out
C15_Witness ==
    /\ call.op = "revoke"
    /\ call.arg \in IPs
    /\ call.arg # world.local_ip
    /\ St.ok
    /\ call.arg \in DOMAIN Table
    /\ Table[call.arg].is_active
    /\ Table[call.arg].time_left = 0
    /\ call.res.ok
    /\ call.res.val = call.arg

\* the probe of the session was answered, with a success status
ProbeAnswered == world.probe.sent /\ world.probe.success
Submitted == Issued(Post(LOGIN_PATH))

\* C16 as stated: a login with force unset whose probe resolves to the index
\* path returns success without submitting the form; with force set the form
\* is submitted; with force unset and a probe that resolves elsewhere the
\* form is submitted after the probe.
C16_LoginByProbePath ==
    call.op = "login"
    => /\ (~call.force /\ world.probe.sent /\ world.probe.path = INDEX_PATH)
            => call.res = Ok(TRUE, <<Get(INDEX_PATH)>>)
       /\ call.force => Submitted
       /\ (~call.force /\ world.probe.sent /\ world.probe.path # INDEX_PATH)
            => call.res.reqs = <<Get(INDEX_PATH), Post(LOGIN_PATH)>>

\* C16, amended: a login with force unset whose probe is answered with a
\* success status and resolves to the index path returns success with the
\* probe its only request; with force set the form is the first and only
\* request, whatever the probe would show; with force unset and a probe
\* answered with a success status that resolves elsewhere the form is
\* submitted right after the probe; and a probe that gets no response or a
\* non-success status ends the login with an error and no form submitted.
C16_LoginProbe ==
    call.op = "login"
    => /\ (~call.force /\ ProbeAnswered /\ world.probe.path = INDEX_PATH)
            => call.res = Ok(TRUE, <<Get(INDEX_PATH)>>)
       /\ call.force => call.res.reqs = <<Post(LOGIN_PATH)>>
       /\ (~call.force /\ ProbeAnswered /\ world.probe.path # INDEX_PATH)
            => call.res.reqs = <<Get(INDEX_PATH), Post(LOGIN_PATH)>>
       /\ (~call.force /\ ~ProbeAnswered)
            => (~call.res.ok /\ call.res.err = "Other"
                    /\ call.res.reqs = <<Get(INDEX_PATH)>>)

\* a forced login submitted the form although the probe would have shown the
\* session authenticated, and the portal rejected the credentials
C16_Witness ==
    /\ call.op = "login"
    /\ call.force
    /\ ProbeAnswered
    /\ world.probe.path = INDEX_PATH
    /\ call.res.reqs = <<Post(LOGIN_PATH)>>
    /\ call.res.err = "InvalidCredentials"

\* C17 as stated: the outcome of a submitted login form that got a response
\* is determined by the path of its final URL: success for the index path,
\* InvalidCredentials for the login path, an Other error naming the path for
\* any other; and no operation gives InvalidCredentials for another cause.
C17_LoginByPath ==
    /\ (call.op = "login" /\ Submitted /\ world.login_post.sent)
        => IF world.login_post.path = INDEX_PATH THEN call.res.ok
           ELSE IF world.login_post.path = LOGIN_PATH
                THEN ~call.res.ok /\ call.res.err = "InvalidCredentials"
           ELSE /\ ~call.res.ok
                /\ call.res.err = "Other"
                /\ call.res.msg
                    = <<"Unexpected URL path in login response", world.login_post.path>>
    /\ (call.op \in {"login", "status", "approve", "revoke"}
            /\ call.res.err = "InvalidCredentials")
        => (Submitted /\ world.login_post.sent /\ world.login_post.path = LOGIN_PATH)

\* C17, amended: the outcome of a submitted login form answered with a
\* success status is determined by the path of its final URL (success for the
\* index path, InvalidCredentials for the login path, an Other error naming
\* the path for any other); a response with a non-success status gives an
\* Other error whatever its path, and no response a Reqwest error; and no
\* operation gives InvalidCredentials for any cause but a submitted form
\* answered with a success status at the login path.
C17_LoginOutcome ==
    /\ (call.op = "login" /\ Submitted)
        => IF ~world.login_post.sent
           THEN ~call.res.ok /\ call.res.err = "Reqwest"
           ELSE IF ~world.login_post.success
           THEN /\ ~call.res.ok
                /\ call.res.err = "Other"
                /\ call.res.msg = <<"Login response failed with status">>
           ELSE IF world.login_post.path = INDEX_PATH THEN call.res.ok
           ELSE IF world.login_post.path = LOGIN_PATH
                THEN ~call.res.ok /\ call.res.err = "InvalidCredentials"
           ELSE /\ ~call.res.ok
                /\ call.res.err = "Other"
                /\ call.res.msg
                    = <<"Unexpected URL path in login response", world.login_post.path>>
    /\ (call.op \in {"login", "status", "approve", "revoke"}
            /\ call.res.err = "InvalidCredentials")
        => /\ Submitted
           /\ world.login_post = Response(TRUE, LOGIN_PATH)

\* a status query failed with an Other error naming the path the login form
\* resolved to, after the probe showed the session unauthenticated
C17_Witness ==
    /\ call.op = "status"
    /\ Submitted
    /\ world.login_post = Response(TRUE, OTHER_PATH)
    /\ call.res.err = "Other"
    /\ call.res.msg = <<"Unexpected URL path in login response", OTHER_PATH>>

\* the approve or revoke request of the call, its exchange and the IP the
\* operation is to return
ActionReq ==
    IF call.op = "approve" THEN Post(APPROVE_PATH) ELSE PostIp(REVOKE_PATH, Target)
ActionPost == IF call.op = "approve" THEN world.approve_post ELSE world.revoke_post
ActionIp == IF call.op = "approve" THEN St.val.system_status.ip ELSE Target

\* C18 as stated: a submitted approve or revoke request succeeds if and only
\* if its response resolves to the index path; the operation returns the IP
\* exactly then and an error otherwise.
C18_ActionByPath ==
    (call.op \in {"approve", "revoke"} /\ Issued(ActionReq))
    => /\ call.res.ok <=> (ActionPost.sent /\ ActionPost.path = INDEX_PATH)
       /\ call.res.ok => call.res.val = ActionIp

\* C18, amended: a submitted approve or revoke request succeeds if and only
\* if it is answered with a success status and its response resolves to the
\* index path; the operation returns the IP (the own one for approve, the
\* target for revoke) exactly then, a Reqwest error when there is no response
\* and an Other error in every other case.
C18_ActionOutcome ==
    (call.op \in {"approve", "revoke"} /\ Issued(ActionReq))
    => /\ call.res.ok <=> ActionPost = Response(TRUE, INDEX_PATH)
       /\ call.res.ok => call.res.val = ActionIp
       /\ ~call.res.ok
            => call.res.err = IF ActionPost.sent THEN "Other" ELSE "Reqwest"
       /\ (ActionPost.sent /\ ActionPost.success /\ ActionPost.path # INDEX_PATH)
            => call.res.msg[2] = ActionPost.path

\* a submitted revoke of another address failed on a response that resolved
\* to the login path
C18_Witness ==
    /\ call.op = "revoke"
    /\ call.arg \in IPs
    /\ Issued(PostIp(REVOKE_PATH, call.arg))
    /\ world.revoke_post = Response(TRUE, LOGIN_PATH)
    /\ ~call.res.ok

\* C19: a successful status() returns connections without the own IP and
\* otherwise equal to the parsed mapping, and a system_status holding the own
\* IP with the parsed record for it, or the inactive record of zero duration
\* when the table has no entry for the own IP; and status() succeeds whenever
\* the session, the fetch, the parse and the address lookup do, whether or
\* not the table holds the own IP.
C19_StatusPartition ==
    call.op = "status"
    => LET own == world.local_ip
           st == call.res.val
           parsed == parse_connections(world.html, world.now)
       IN  /\ call.res.ok
                => /\ parsed.ok
                   /\ own \notin DOMAIN st.connections
                   /\ DOMAIN st.connections = (DOMAIN parsed.map) \ {own}
                   /\ \A p \in DOMAIN st.connections : st.connections[p] = parsed.map[p]
                   /\ st.system_status.ip = own
                   /\ own \in DOMAIN parsed.map
                        => st.system_status.connection = parsed.map[own]
                   /\ own \notin DOMAIN parsed.map
                        => st.system_status.connection
                                = [time_left |-> 0, is_active |-> FALSE]
           /\ (login(world, FALSE).ok /\ world.index_fetch = "ok" /\ parsed.ok
                    /\ own # NoIp)
                => call.res.ok

\* status() succeeded on a table that holds another address and not the own
C19_Witness ==
    /\ call.op = "status"
    /\ call.res.ok
    /\ world.local_ip \notin DOMAIN Table
    /\ DOMAIN call.res.val.connections # {}
    /\ ~call.res.val.system_status.connection.is_active
    /\ call.res.val.system_status.connection.time_left = 0

\* a row with its IP cell, expiry cell and status element, each with text,
\* and an IP and an expiry that parse
WellFormed(tr) ==
    /\ tr.ip_cell = "ok"
    /\ tr.vt_cell = "ok"
    /\ tr.span \notin {"missing", "notext"}
DataRows == 2..Len(world.html.rows)

\* C20: the parse fails, returning no mapping, when the document has no
\* table body or any row after the first is not well formed, other rows
\* being well formed or not; when every row after the first is well formed it
\* succeeds with an entry for the IP of each of them (the record of the last
\* row of that IP: its time left floored at zero, active iff its label is
\* Active) and no entry for any other IP, the first row's included.
C20_ParseAllOrNothing ==
    call.op = "parse"
    => LET rows == world.html.rows IN
       IF ~world.html.tbody \/ \E i \in DataRows : ~WellFormed(rows[i])
       THEN ~call.res.ok /\ call.res.map = EmptyMap
       ELSE /\ call.res.ok
            /\ DOMAIN call.res.map = {rows[i].ip : i \in DataRows}
            /\ \A i \in DataRows :
                (\A j \in DataRows : j > i => rows[j].ip # rows[i].ip)
                => /\ call.res.map[rows[i].ip].is_active = (rows[i].span = "Active")
                   /\ call.res.map[rows[i].ip].time_left
                        = IF rows[i].valid_till > world.now
                          THEN rows[i].valid_till - world.now ELSE 0
            /\ (rows # <<>> /\ \A i \in DataRows : rows[i].ip # rows[1].ip)
                => rows[1].ip \notin DOMAIN call.res.map

\* the parse failed on a table whose first row would parse, whose second row
\* is well formed and whose third row is not
C20_Witness ==
    /\ call.op = "parse"
    /\ world.html.tbody
    /\ Len(world.html.rows) = 3
    /\ WellFormed(world.html.rows[1])
    /\ WellFormed(world.html.rows[2])
    /\ ~WellFormed(world.html.rows[3])
    /\ ~call.res.ok

\* the row of the table that decides the entry of an IP: the last one of it
LastRowOf(ip) ==
    CHOOSE i \in DataRows :
        /\ world.html.rows[i].ip = ip
        /\ \A j \in DataRows : j > i => world.html.rows[j].ip # ip

\* C21: is_active() of a parsed connection with flag f and time left t equals
\* (f and t > 0); the connection of a row labelled Active whose expiry is at
\* or before now is not active, and the connection of a row whose label is
\* not Active is not active although time is left.
C21_IsActive ==
    call.op = "is_active"
    => LET c == Table[call.arg]
           tr == world.html.rows[LastRowOf(call.arg)]
       IN  /\ call.res = (c.is_active /\ c.time_left > 0)
           /\ call.res = (tr.span = "Active" /\ tr.valid_till > world.now)
           /\ (tr.span = "Active" /\ tr.valid_till <= world.now) => ~call.res
           /\ (tr.span # "Active" /\ tr.valid_till > world.now) => ~call.res

\* is_active() answered no for the connection of a row labelled Active whose
\* expiry has passed
C21_Witness ==
    /\ call.op = "is_active"
    /\ ~call.res
    /\ Table[call.arg].is_active
    /\ Table[call.arg].time_left = 0
    /\ world.html.rows[LastRowOf(call.arg)].valid_till <= world.now

\* is_active() answered no for the connection of a row that has time left
\* and is not labelled Active
C21_OtherLabel ==
    /\ call.op = "is_active"
    /\ ~call.res
    /\ ~Table[call.arg].is_active
    /\ Table[call.arg].time_left > 0

\* C22: the time left of every parsed entry is max(0, expiry - now) of the
\* row that decides it: never negative, zero when the expiry is at or before
\* now, the difference otherwise.
C22_TimeLeftClamped ==
    (call.op = "parse" /\ call.res.ok)
    => \A ip \in DOMAIN call.res.map :
        LET tr == world.html.rows[LastRowOf(ip)]
            t == call.res.map[ip].time_left
        IN  /\ t >= 0
            /\ tr.valid_till <= world.now => t = 0
            /\ tr.valid_till > world.now => t = tr.valid_till - world.now
            /\ t >= tr.valid_till - world.now

\* a table parsed with one expiry before now, one at now
C22_Witness ==
    /\ call.op = "parse"
    /\ call.res.ok
    /\ \E i, j \in DataRows :
        /\ world.html.rows[i].valid_till < world.now
        /\ world.html.rows[j].valid_till = world.now
        /\ call.res.map[world.html.rows[i].ip].time_left = 0
        /\ call.res.map[world.html.rows[j].ip].time_left = 0
        /\ world.html.rows[i].ip # world.html.rows[j].ip

LoginPassed ==
    /\ ProbeAnswered
    /\ world.probe.path = INDEX_PATH \/ world.login_post = Response(TRUE, INDEX_PATH)
FetchFailed ==
    \/ world.index_fetch # "ok"
    \/ ~parse_connections(world.html, world.now).ok
    \/ world.local_ip = NoIp
\* the requests a call can make, in their order: the probe, the login form
\* when the probe does not resolve to the index path, the fetch, the action
RequestOrders ==
    LET G == Get(INDEX_PATH)
        P == Post(LOGIN_PATH)
    IN  {<<G>>, <<G, P>>, <<G, G>>, <<G, P, G>>, <<G, G, ActionReq>>, <<G, P, G, ActionReq>>}

\* C23: within one call of status, approve or revoke the probe, the login
\* form, the fetch and the action request are each issued at most once and
\* in that order; a call whose probe fails has issued the probe alone, one
\* whose login form fails the probe and the form, one whose fetch, parse or
\* address lookup fails nothing after the fetch, one whose action request
\* fails nothing after it; every such call returns a failure, and a call
\* that returns success had no failing step.
C23_NoRetry ==
    call.op \in {"status", "approve", "revoke"}
    => LET reqs == call.res.reqs
           G == Get(INDEX_PATH)
           P == Post(LOGIN_PATH)
       IN  /\ reqs \in RequestOrders
           /\ call.op = "status" => ~Issued(ActionReq)
           /\ ~ProbeAnswered
                => ~call.res.ok /\ reqs = <<G>> /\ call.res.err = "Other"
           /\ (ProbeAnswered /\ world.probe.path # INDEX_PATH
                /\ world.login_post # Response(TRUE, INDEX_PATH))
                => /\ ~call.res.ok
                   /\ reqs = <<G, P>>
                   /\ call.res.err = IF ~world.login_post.sent THEN "Reqwest"
                                     ELSE IF ~world.login_post.success THEN "Other"
                                     ELSE IF world.login_post.path = LOGIN_PATH
                                          THEN "InvalidCredentials" ELSE "Other"
           /\ (LoginPassed /\ FetchFailed)
                => /\ ~call.res.ok
                   /\ reqs = IF world.probe.path = INDEX_PATH THEN <<G, G>> ELSE <<G, P, G>>
                   /\ call.res.err = IF world.index_fetch # "ok" THEN "Reqwest" ELSE "Other"
           /\ (call.op = "revoke" /\ St.ok /\ call.arg = BadIpText)
                => ~call.res.ok /\ reqs = St.reqs
           /\ (Issued(ActionReq) /\ ActionPost # Response(TRUE, INDEX_PATH))
                => /\ ~call.res.ok
                   /\ reqs[Len(reqs)] = ActionReq
                   /\ call.res.err = IF ~ActionPost.sent THEN "Reqwest" ELSE "Other"
           /\ call.res.ok
                => /\ LoginPassed
                   /\ ~FetchFailed
                   /\ Issued(ActionReq) => ActionPost = Response(TRUE, INDEX_PATH)

\* an approve whose form could not be sent returned the failure after the
\* probe, the fetch and the one attempt
C23_Witness ==
    /\ call.op = "approve"
    /\ ~call.res.ok
    /\ ~world.approve_post.sent
    /\ call.res.reqs = <<Get(INDEX_PATH), Get(INDEX_PATH), Post(APPROVE_PATH)>>

\* a status whose login form was rejected returned after the probe and the
\* one submission
C23_LoginRejected ==
    /\ call.op = "status"
    /\ call.res.err = "InvalidCredentials"
    /\ call.res.reqs = <<Get(INDEX_PATH), Post(LOGIN_PATH)>>

\* C24: a Suspended wait whose wake handle was dropped unused ends in the
\* next iteration, never in the end of the task, and does end; an Error wait
\* whose retry handle was dropped unused ends in the end of the task, never
\* in another iteration, and does end; and a task that has ended makes no
\* status query, no approve call and emits no event.
C24_AbandonedHandles ==
    /\ [][(pc = "suspended" /\ hs[CurId] = "dropped" /\ pc' # pc)
            => /\ pc' \in {"send_cs", "aborted"}
               /\ pc' = "send_cs" => iter' = <<>> /\ live' = live]_vars
    /\ [][(pc = "parked" /\ hs[CurId] = "dropped" /\ pc' # pc)
            => /\ pc' \in {"done", "aborted"}
               /\ pc' = "done" => live' = live - 1]_vars
    /\ [][(pc = "done" /\ nSpawn' = nSpawn)
            => /\ pc' = "done"
               /\ nStatus' = nStatus
               /\ nApprove' = nApprove
               /\ emitted' = emitted]_vars
    /\ (pc = "suspended" /\ hs[CurId] = "dropped") ~> (pc \in {"send_cs", "aborted"})
    /\ (pc = "parked" /\ hs[CurId] = "dropped") ~> (pc \in {"done", "aborted"})

\* the task has ended on a dropped retry handle, the event channel still
\* open, after a Suspended wait in an earlier iteration
C24_Witness ==
    /\ pc = "done"
    /\ rxOpen
    /\ LastKind = "Error"
    /\ hs[CurId] = "spent"
    /\ NumKind("Suspended") = 1

\* the monitor is in a Suspended wait whose wake handle has been dropped,
\* the timer not elapsed
C24_WakeDropped ==
    /\ pc = "suspended"
    /\ hs[CurId] = "dropped"
    /\ ~timerDone

\* C25: in the terminal consumer a Suspended wait on display does not end
\* after a Retry key other than by its timer (or an abort), and a monitor
\* parked on the Error on display stays parked after a Wakeup key (unless
\* aborted).
C25_InapplicableKeyDiscarded ==
    /\ [][(pc = "suspended" /\ Displayed = CurId /\ key = "Retry" /\ pc' # pc)
            => timerDone \/ pc' = "aborted"]_vars
    /\ [][(pc = "parked" /\ Displayed = CurId /\ key = "Wakeup")
            => pc' \in {"parked", "aborted"}]_vars

\* C26: exactly the Suspended and the Error events carry a handle; the
\* handle of every event but the last is detached from the monitor (its
\* receiver is gone); a consumer that signals on, or drops, a detached handle
\* changes nothing of the monitor: its place, its timer, the events emitted,
\* the status queries and approve calls made, the handle of the current
\* wait; and a wait ends only by the handle of its own event (or, Suspended,
\* by its timer, or by an abort).
C26_StaleHandleInert ==
    /\ [](\A i \in 1..Len(hs) :
            /\ hs[i] # "none" <=> emitted[i].kind \in {"Suspended", "Error"}
            /\ i < Len(hs) => hs[i] \in {"none", "stale", "spent"})
    /\ [][(Len(hs') = Len(hs) /\ rxOpen' = rxOpen
            /\ \E i \in 1..Len(hs) : hs[i] = "stale" /\ hs'[i] = "spent")
            => /\ UNCHANGED <<pc, timerDone, emitted, nIter, nStatus, nApprove, live, iter,
                             err, chan>>
               /\ hs'[CurId] # hs[CurId] => hs[CurId] = "stale"]_vars
    /\ [][(pc \in {"suspended", "parked"} /\ pc' \notin {pc, "aborted"})
            => \/ pc = "suspended" /\ timerDone
               \/ hs[CurId] \in {"sent", "dropped"}]_vars

\* the handle of the first Suspended wait has been used up while the monitor,
\* its timer not elapsed, is in a second Suspended wait whose handle the
\* consumer holds unused
C26_Witness ==
    /\ pc = "suspended"
    /\ ~timerDone
    /\ hs = <<"none", "spent", "none", "pending">>
    /\ Held(4)

\* the consumer holds the handle of a wait the monitor has left while the
\* monitor is parked in a later wait
C26_HoldsStale ==
    /\ pc = "parked"
    /\ hs[CurId] = "pending"
    /\ \E i \in 1..(CurId - 1) : hs[i] = "stale" /\ Held(i)

\* C27: in the line-based consumer, when the line asked for is entered after
\* the timer has ended the Suspended wait, the send on the wake handle leaves
\* the consumer running, its receiver open and the messages queued in the
\* meantime in the channel for it to receive.
C27_LateWakeDiscarded ==
    [][(Holding /\ emitted[Displayed].kind = "Suspended" /\ hs[Displayed] = "stale"
        /\ key' = "Wakeup")
        => rxOpen' /\ chan' = chan]_vars

\* C28: an iteration that failed with InvalidCredentials goes, while the
\* event channel is open, nowhere but to an Error event that carries that
\* error and a fresh retry handle, and parks; parked, it leaves only by the
\* retry signal, to the next iteration, or as for any failure by the dropped
\* handle or an abort; every status query and approve call is made for the
\* user start() was given; and once the retry signal is sent the next status
\* query, for that user, does start.
C28_CredentialFailureRetryable ==
    /\ [][(pc = "send_err" /\ err = "InvalidCredentials" /\ pc' # pc)
            => \/ pc' = "aborted"
               \/ ~rxOpen /\ pc' = "done"
               \/ /\ rxOpen
                  /\ pc' = "parked"
                  /\ emitted' = Append(emitted, Error(NextId, "InvalidCredentials"))
                  /\ hs'[NextId] = "pending"
                  /\ live' = live]_vars
    /\ [][(pc = "parked" /\ err = "InvalidCredentials" /\ pc' # pc)
            => \/ pc' = "aborted"
               \/ hs[CurId] = "dropped" /\ pc' = "done"
               \/ hs[CurId] = "sent" /\ pc' = "send_cs" /\ user' = user]_vars
    /\ [](asked \in {"none", user})
    /\ [][(nStatus' = nStatus + 1 \/ nApprove' = nApprove + 1) => asked' = user]_vars
    /\ (pc = "parked" /\ err = "InvalidCredentials" /\ hs[CurId] = "sent" /\ nIter < MaxIter)
            ~> ((pc = "status" /\ asked = user) \/ pc = "aborted" \/ ~rxOpen)

\* the second status query is in flight, for the user start() was given,
\* after the first was answered with rejected credentials, the Error event
\* was received and the retry signal sent
C28_Witness ==
    /\ pc = "status"
    /\ nStatus = 2
    /\ asked = user
    /\ user \in Users
    /\ rxOpen
    /\ emitted[CurId - 1] = Error(CurId - 1, "InvalidCredentials")
    /\ hs[CurId - 1] = "spent"
    /\ live = 1

\* the kinds of event that may come next after an event of kind k
Successors(k) ==
    CASE k = "CheckingStatus" -> {"Approving", "Suspended", "Error"}
      [] k = "Approving" -> {"CheckingStatus", "Error"}
      [] k = "Suspended" -> {"CheckingStatus"}
      [] k = "Error" -> {"CheckingStatus"}

\* C29: of the events one execution of the monitor has emitted the first is
\* CheckingStatus, and each one after an event of kind k is of a kind in
\* Successors(k): CheckingStatus is never followed by CheckingStatus, nor
\* Suspended by Error.
C29_SuccessorRelation ==
    /\ emitted # <<>> => emitted[1].kind = "CheckingStatus"
    /\ \A i \in 1..(Len(emitted) - 1) :
        /\ emitted[i + 1].kind \in Successors(emitted[i].kind)
        /\ ~(emitted[i].kind = "CheckingStatus" /\ emitted[i + 1].kind = "CheckingStatus")
        /\ ~(emitted[i].kind = "Suspended" /\ emitted[i + 1].kind = "Error")

\* one execution has emitted CheckingStatus, Suspended, CheckingStatus,
\* Approving and Error
C29_Witness ==
    /\ Len(emitted) = 5
    /\ emitted[1].kind = "CheckingStatus"
    /\ emitted[2].kind = "Suspended"
    /\ emitted[3].kind = "CheckingStatus"
    /\ emitted[4].kind = "Approving"
    /\ emitted[5].kind = "Error"

====
